---- MODULE Spec2Model ----
(***************************************************************************)
(* PDM-Web DXF nesting pipeline.                                           *)
(*                                                                         *)
(* Spec      the nesting workers of worker/nesting/nest_worker.py running  *)
(*           against the shared work_queue / nest_jobs / nest_results      *)
(*           tables and the object store, with the nest_parts call of the  *)
(*           job they process, the sheet DXF files they write, and         *)
(*           DELETE /jobs/{id} of backend/app/routes/nesting.py.           *)
(* NestSpec  one invocation of nest_parts (worker/nesting/nester.py) on    *)
(*           inputs drawn from bounded sets.                               *)
(***************************************************************************)
EXTENDS Integers, Sequences, FiniteSets, TLC

VARIABLES
    \* ---- relational store and object store (shared) ----
    wq,         \* work_queue rows: task id -> [status, errlen]
    jobs,       \* nest_jobs rows: job id -> [status, sheets_used,
                \*   total_parts_placed, errlen, completed_at]
    itemMeta,   \* nest_job_items with geometry metadata filled: job id -> set of items
    results,    \* nest_results rows: job id -> sequence of [sheet_index, dxf_path, svg_path]
    blobs,      \* object-store paths written under output prefixes
    \* ---- per worker process ----
    pc,         \* position of each worker, and of the FreeCAD worker
    task,       \* the task row returned by the last poll
    dl,         \* dxf_paths: items whose DXF was downloaded
    parts,      \* parts_for_nesting: items that yielded an outline
    itemIdx,    \* loop index of the parse loop
    nsheets,    \* len(result.sheets) returned by nest_parts
    rows,       \* nest_result_rows built so far
    written,    \* the sheet DXF files written so far: the entities of each
    err,        \* the exception caught: [len of str(e), step that raised], or NoErr
    intr,       \* a KeyboardInterrupt is propagating
    scratch,    \* scratch directories that exist: <<worker, job>>
    \* ---- bookkeeping for the properties ----
    runs,       \* number of claim_task calls that returned True, per task
    faults,     \* number of injected I/O failures so far
    \* ---- one call of nest_parts ----
    args,           \* [parts, sheet_width, sheet_height, spacing, margin, rotation_step]
    npc,            \* position inside nest_parts
    instances,      \* the part instances to place
    placeable,      \* the instances the placement loop has still to visit
    sheets,         \* result.sheets
    sheet_polygons, \* the placed buffered polygons, per sheet
    skipped         \* result.skipped

wvars == <<wq, jobs, itemMeta, results, blobs, pc, task, dl, parts, itemIdx,
           nsheets, rows, written, err, intr, scratch, runs, faults>>

nvars == <<args, npc, instances, placeable, sheets, sheet_polygons, skipped>>

------------------------------------------------------------------------------
\* Bounds of the worker model.
NumWorkers == 2
NumJobs == 1
NumItems == 2
MaxFaults == 1

\* error_message[:2000]
ErrMsgMax == 2000

Workers == 1..NumWorkers
\* The process that runs worker_loop.py (the FreeCAD worker).
FreeCad == NumWorkers + 1
Jobs == 1..NumJobs
\* Task t <= NumJobs is the NEST_PARTS task queued by create_nest_job for job t;
\* task NumJobs + 1 is a NEST_PARTS task created through POST /tasks whose
\* payload carries no nest_job_id.
Tasks == 1..(NumJobs + 1)
Items == 1..NumItems
NoJob == 0
NoTask == 0
\* err when no exception has been caught.
NoErr == [len |-> 0, at |-> "none"]

Min(a, b) == IF a <= b THEN a ELSE b
Max(a, b) == IF a >= b THEN a ELSE b

\* payload.get("nest_job_id")
PayloadJob(t) == IF t \in Jobs THEN t ELSE NoJob

\* Lengths of str(e) of an exception raised by a library call: empty (an
\* exception without arguments), short, longer than the cut of [:2000].
ErrLens == {0, 1, ErrMsgMax + 1}

Terminal == {"completed", "failed"}

\* Positions inside the try block of process_nest_task.
TryBody == {"s1", "s2", "s3", "s4", "s5", "s6", "s7", "s8", "s9", "s10", "s11"}
Handler == {"h1", "h2"}

------------------------------------------------------------------------------
\* nester.py: geometry.
\*
\* Lengths are integers in units of 1/2000 inch.  A polygon is a union of
\* axis-parallel rectangles, given as a sequence of [x1, y1, x2, y2] (at most
\* two of them overlap at any point); the empty sequence is the empty
\* polygon.  Rotations are the multiples of 90 degrees.  buffer(d) offsets
\* every rectangle outward by d (square corners).

Inch == 2 * 1000
\* The 0.001 slack of the scan loops, and the 0.25 minimum grid step.
Tol == Inch \div 1000
MinStep == Inch \div 4

Rect(x1, y1, x2, y2) == [x1 |-> x1, y1 |-> y1, x2 |-> x2, y2 |-> y2]

RectArea(r) == (r.x2 - r.x1) * (r.y2 - r.y1)

\* The common part of two rectangles (of no area when they do not overlap).
RectMeet(r, q) ==
    LET x1 == Max(r.x1, q.x1)
        y1 == Max(r.y1, q.y1)
        x2 == Min(r.x2, q.x2)
        y2 == Min(r.y2, q.y2)
    IN  IF x1 < x2 /\ y1 < y2 THEN Rect(x1, y1, x2, y2) ELSE Rect(0, 0, 0, 0)

\* The pairs of rectangles of a polygon.
Pairs(p) == {ij \in (1..Len(p)) \X (1..Len(p)) : ij[1] < ij[2]}

RECURSIVE SumSet(_, _)
SumSet(S, f) ==
    IF S = {} THEN 0
    ELSE LET e == CHOOSE e \in S : TRUE IN f[e] + SumSet(S \ {e}, f)

\* polygon.area
Area(p) ==
    LET single == [i \in 1..Len(p) |-> RectArea(p[i])]
        double == [ij \in Pairs(p) |-> RectArea(RectMeet(p[ij[1]], p[ij[2]]))]
    IN  SumSet(1..Len(p), single) - SumSet(Pairs(p), double)

\* Twice the first moments of a polygon about the axes.
MomentX2(p) ==
    LET single == [i \in 1..Len(p) |-> RectArea(p[i]) * (p[i].x1 + p[i].x2)]
        double == [ij \in Pairs(p) |->
                      LET m == RectMeet(p[ij[1]], p[ij[2]])
                      IN  RectArea(m) * (m.x1 + m.x2)]
    IN  SumSet(1..Len(p), single) - SumSet(Pairs(p), double)

MomentY2(p) ==
    LET single == [i \in 1..Len(p) |-> RectArea(p[i]) * (p[i].y1 + p[i].y2)]
        double == [ij \in Pairs(p) |->
                      LET m == RectMeet(p[ij[1]], p[ij[2]])
                      IN  RectArea(m) * (m.y1 + m.y2)]
    IN  SumSet(1..Len(p), single) - SumSet(Pairs(p), double)

\* Twice polygon.centroid (the centroid of a rectangle is its midpoint).
Centroid2(p) ==
    IF Len(p) = 1
    THEN [x |-> p[1].x1 + p[1].x2, y |-> p[1].y1 + p[1].y2]
    ELSE [x |-> MomentX2(p) \div Area(p), y |-> MomentY2(p) \div Area(p)]

\* polygon.bounds
Bounds(p) ==
    LET I == 1..Len(p)
    IN  [x1 |-> CHOOSE v \in {p[i].x1 : i \in I} : \A i \in I : v <= p[i].x1,
         y1 |-> CHOOSE v \in {p[i].y1 : i \in I} : \A i \in I : v <= p[i].y1,
         x2 |-> CHOOSE v \in {p[i].x2 : i \in I} : \A i \in I : v >= p[i].x2,
         y2 |-> CHOOSE v \in {p[i].y2 : i \in I} : \A i \in I : v >= p[i].y2]

\* shapely.affinity.translate
Translate(p, dx, dy) ==
    [i \in 1..Len(p) |-> Rect(p[i].x1 + dx, p[i].y1 + dy, p[i].x2 + dx, p[i].y2 + dy)]

\* A rectangle turned counter-clockwise by rot degrees about the point c2 / 2.
RotateRect(r, rot, c2) ==
    LET s == (c2.x + c2.y) \div 2
        d == (c2.x - c2.y) \div 2
    IN  CASE rot = 90  -> Rect(s - r.y2, r.x1 - d, s - r.y1, r.x2 - d)
          [] rot = 180 -> Rect(c2.x - r.x2, c2.y - r.y2, c2.x - r.x1, c2.y - r.y1)
          [] rot = 270 -> Rect(d + r.y1, s - r.x2, d + r.y2, s - r.x1)
          [] OTHER     -> r

RotateAbout(p, rot, c2) == [i \in 1..Len(p) |-> RotateRect(p[i], rot, c2)]

\* shapely.affinity.rotate(geom, rot, origin="centroid"): the pivot is the
\* centroid of the geometry that is rotated.
Rotate(p, rot) == RotateAbout(p, rot, Centroid2(p))

\* polygon.buffer(d)
Buffer(p, d) ==
    [i \in 1..Len(p) |-> Rect(p[i].x1 - d, p[i].y1 - d, p[i].x2 + d, p[i].y2 + d)]

IsEmpty(p) == p = <<>>

\* a.intersects(b) and not a.touches(b): the interiors meet.
Overlaps(a, b) ==
    \E i \in 1..Len(a) : \E j \in 1..Len(b) : RectArea(RectMeet(a[i], b[j])) > 0

\* A variant of _overlaps_any that looks at the last placed polygon only.
OverlapsLastOnly(candidate, placed) ==
    placed # <<>> /\ Overlaps(placed[Len(placed)], candidate)

\* _overlaps_any
OverlapsAny(candidate, placed) ==
    \E k \in 1..Len(placed) : Overlaps(placed[k], candidate)

------------------------------------------------------------------------------
\* nester.py: one call of nest_parts.

\* Bounds of the nester model.
MaxParts == 2
MaxQty == 2

\* The outlines the parts are drawn from: a 1 x 1 square, a rectangle a
\* half-thousandth wider than the square, a 0.4 x 0.2 bar, a T-shaped outline
\* (a foot with a thin stem) and the empty polygon.
Square == <<Rect(0, 0, Inch, Inch)>>
Bar == <<Rect(0, 0, (2 * Inch) \div 5, Inch \div 5)>>
Wide == <<Rect(0, 0, Inch + 1, (4 * Inch) \div 5 + 1)>>
Hat == <<Rect(0, 0, Inch \div 5, Inch \div 10),
         Rect((9 * Inch) \div 100, Inch \div 10, (11 * Inch) \div 100, (6 * Inch) \div 10)>>
EmptyPolygon == <<>>
Catalogue == {Square, Wide, Bar, Hat, EmptyPolygon}

\* Sheet sizes (width, height), margins, spacings and rotation steps a job
\* is created with.
SheetSizes == {<<(5 * Inch) \div 2, (5 * Inch) \div 2>>, <<(5 * Inch) \div 2, Inch>>}
Margins == {Inch \div 4, (5 * Inch) \div 4}
Spacings == {0, Inch \div 10}
RotationSteps == {0, 90, 180}

PartLists ==
    UNION {[1..n -> Catalogue \X (0..MaxQty)] : n \in 1..MaxParts}

\* The arguments of a call: part i of the list has id i.
NestInputs ==
    {[parts |-> [i \in DOMAIN pl |->
                    [id |-> i, polygon |-> pl[i][1], quantity |-> pl[i][2]]],
      sheet_width |-> sz[1], sheet_height |-> sz[2],
      spacing |-> sp, margin |-> m, rotation_step |-> rs] :
        pl \in PartLists, sz \in SheetSizes, sp \in Spacings,
        m \in Margins, rs \in RotationSteps}

\* The calls of the worked examples: a 9 x 1 strip on a 10 x 2 sheet, whose
\* usable area is 9 x 1, and a 4 x 4 square on a 10 x 10 sheet, with margin
\* 0.5 and the default spacing 0.125 (or none).
Strip == <<Rect(0, 0, 9 * Inch, Inch)>>
Square4 == <<Rect(0, 0, 4 * Inch, 4 * Inch)>>
DefaultSpacing == Inch \div 8
Scenario(polygon, quantity, w, h, sp, rs) ==
    [parts |-> <<[id |-> 1, polygon |-> polygon, quantity |-> quantity]>>,
     sheet_width |-> w, sheet_height |-> h, spacing |-> sp,
     margin |-> Inch \div 2, rotation_step |-> rs]
Scenarios ==
    {Scenario(Strip, q, 10 * Inch, 2 * Inch, sp, rs) :
        q \in 1..2, sp \in {0, DefaultSpacing}, rs \in {0, 90}}
    \cup {Scenario(Square4, 5, 10 * Inch, 10 * Inch, DefaultSpacing, 90)}

\* args while nest_parts is not running.
NoArgs == [parts |-> <<>>, sheet_width |-> 0, sheet_height |-> 0,
           spacing |-> 0, margin |-> 0, rotation_step |-> 0]

usable_width == args.sheet_width - 2 * args.margin
usable_height == args.sheet_height - 2 * args.margin
usable_area == usable_width * usable_height

\* list(range(0, 360, rotation_step)), or [0]
rotations ==
    IF args.rotation_step <= 0 THEN <<0>>
    ELSE [k \in 1..((359 \div args.rotation_step) + 1) |-> (k - 1) * args.rotation_step]

\* buffered.is_valid
IsValid(p) == \A i \in 1..Len(p) : p[i].x1 < p[i].x2 /\ p[i].y1 < p[i].y2

\* Lines 109-118: the instances of one part.
InstancesOf(part) ==
    LET buffered == Buffer(part.polygon, args.spacing \div 2)
    IN  IF ~IsValid(buffered) \/ IsEmpty(buffered) THEN <<>>
        ELSE [i \in 1..part.quantity |->
                 [id |-> part.id, instance |-> i,
                  original |-> part.polygon, buffered |-> buffered]]

RECURSIVE BuildInstances(_)
BuildInstances(ps) ==
    IF ps = <<>> THEN <<>> ELSE InstancesOf(Head(ps)) \o BuildInstances(Tail(ps))

\* A variant of the sort of lines 121-124 that puts an instance before the
\* instances of equal area.
InsertBeforeEqual(sorted, e) ==
    LET k == Cardinality({i \in 1..Len(sorted) :
                             Area(sorted[i].original) > Area(e.original)})
    IN  SubSeq(sorted, 1, k) \o <<e>> \o SubSeq(sorted, k + 1, Len(sorted))

\* instances.sort(key=area of the original, reverse=True): a stable sort,
\* instances of equal area keep their order.
InsertByArea(sorted, e) ==
    LET k == Cardinality({i \in 1..Len(sorted) :
                             Area(sorted[i].original) >= Area(e.original)})
    IN  SubSeq(sorted, 1, k) \o <<e>> \o SubSeq(sorted, k + 1, Len(sorted))

RECURSIVE SortByArea(_)
SortByArea(q) ==
    IF q = <<>> THEN <<>>
    ELSE InsertByArea(SortByArea(SubSeq(q, 1, Len(q) - 1)), q[Len(q)])

\* A variant of line 324 that compares the width only.
IsOversizedByWidth(buffered) ==
    \A k \in 1..Len(rotations) :
        LET rot == rotations[k]
            rotated == IF rot # 0 THEN Rotate(buffered, rot) ELSE buffered
            b == Bounds(rotated)
        IN  ~(b.x2 - b.x1 <= usable_width)

\* _is_oversized
IsOversized(buffered) ==
    \A k \in 1..Len(rotations) :
        LET rot == rotations[k]
            rotated == IF rot # 0 THEN Rotate(buffered, rot) ELSE buffered
            b == Bounds(rotated)
        IN  ~(b.x2 - b.x1 <= usable_width /\ b.y2 - b.y1 <= usable_height)

\* The least element of a set of numbers, and its k-th smallest element.
Least(S) == CHOOSE v \in S : \A u \in S : v <= u
NthOf(S, k) == CHOOSE v \in S : Cardinality({u \in S : u < v}) = k - 1

------------------------------------------------------------------------------
\* _try_place

\* best_placement is None
NoPlacement == [part_id |-> 0, instance |-> 0, polygon |-> <<>>,
                x |-> 0, y |-> 0, rotation |-> 0]

\* Lines 225-241 for one rotation: the rotated polygons moved so that the
\* bounds of the buffered one start at (0, 0).
Normalized(inst, rot) ==
    LET rotated_buf == IF rot # 0 THEN Rotate(inst.buffered, rot) ELSE inst.buffered
        rotated_orig == IF rot # 0 THEN Rotate(inst.original, rot) ELSE inst.original
        rb == Bounds(rotated_buf)
        norm_buf == Translate(rotated_buf, -rb.x1, -rb.y1)
        nb == Bounds(norm_buf)
    IN  [norm_buf |-> norm_buf,
         norm_orig |-> Translate(rotated_orig, -rb.x1, -rb.y1),
         pw |-> nb.x2 - nb.x1, ph |-> nb.y2 - nb.y1]

\* A variant of line 214 with the minimum step only.
GridStepMinimum(buffered) ==
    4 * MinStep

\* Line 214: the grid step, in quarters of the length unit so that the
\* division by 4 is exact.
GridStep(buffered) ==
    LET bounds == Bounds(buffered)
    IN  Max(4 * MinStep, Min(bounds.x2 - bounds.x1, bounds.y2 - bounds.y1))

\* The k-th position of the grid (x or y after k additions of the step), to
\* the length unit.
GridPos(k, step) == (k * step) \div 4

\* The one element of a singleton set.
The(S) == CHOOSE v \in S : TRUE

\* The inner loop of lines 250-273 at height y: the first x of the grid at
\* which the candidate overlaps nothing, or -1 when the row has none.
FirstFreeX(n, y, step, placed_polys) ==
    LET free == {k \in 0..((4 * (usable_width + Tol - n.pw)) \div step) :
                    ~OverlapsAny(Translate(n.norm_buf, GridPos(k, step) + args.margin,
                                           y + args.margin), placed_polys)}
    IN  IF free = {} THEN -1 ELSE GridPos(Least(free), step)

\* A variant of line 258 in which a position as low and as far left replaces
\* the best one.
ImproveOnTie(inst, rot, n, x, y, best) ==
    IF ~best.found \/ y < best.y \/ (y = best.y /\ x <= best.x)
    THEN [found |-> TRUE, x |-> x, y |-> y,
          placement |->
             [part_id |-> inst.id, instance |-> inst.instance,
              polygon |-> Translate(n.norm_orig, x + args.margin, y + args.margin),
              x |-> x + args.margin, y |-> y + args.margin,
              rotation |-> rot]]
    ELSE best

\* Lines 256-271 at a free position (x, y): best, or the placement there when
\* it is lower, or as low and further left.
Improve(inst, rot, n, x, y, best) ==
    IF ~best.found \/ y < best.y \/ (y = best.y /\ x < best.x)
    THEN [found |-> TRUE, x |-> x, y |-> y,
          placement |->
             [part_id |-> inst.id, instance |-> inst.instance,
              polygon |-> Translate(n.norm_orig, x + args.margin, y + args.margin),
              x |-> x + args.margin, y |-> y + args.margin,
              rotation |-> rot]]
    ELSE best

\* The outer loop of lines 248-277 from row r of the grid on; best is the
\* best placement so far, [found, x, y, placement].
RECURSIVE ScanRows(_, _, _, _, _, _, _)
ScanRows(inst, rot, n, r, step, placed_polys, best) ==
    IF r * step + 4 * n.ph > 4 * (usable_height + Tol) THEN best
    ELSE The({IF best1.found /\ best1.y <= GridPos(r, step) THEN best1
              ELSE ScanRows(inst, rot, n, r + 1, step, placed_polys, best1) :
                 best1 \in {IF x >= 0
                            THEN Improve(inst, rot, n, x, GridPos(r, step), best)
                            ELSE best :
                               x \in {FirstFreeX(n, GridPos(r, step), step,
                                                 placed_polys)}}})

\* The body of the loop over the rotations, lines 224-277, for one rotation.
ScanRotation(inst, rot, step, placed_polys, best) ==
    The({IF n.pw > usable_width \/ n.ph > usable_height THEN best
         ELSE ScanRows(inst, rot, n, 0, step, placed_polys, best) :
            n \in {Normalized(inst, rot)}})

\* The loop over the rotations, line 223, from rotation k on.
RECURSIVE ScanRotations(_, _, _, _, _)
ScanRotations(inst, k, step, placed_polys, best) ==
    IF k > Len(rotations) THEN best
    ELSE The({ScanRotations(inst, k + 1, step, placed_polys, best1) :
                 best1 \in {ScanRotation(inst, rotations[k], step, placed_polys, best)}})

\* Lines 279-296: the placement appended to the sheet and the buffered
\* polygon, rebuilt at the position, appended to placed_polys.
Commit(inst, best) ==
    LET rb == IF best.placement.rotation # 0
              THEN Rotate(inst.buffered, best.placement.rotation)
              ELSE inst.buffered
        b == Bounds(rb)
        norm == Translate(rb, -b.x1, -b.y1)
    IN  IF best.found
        THEN [placed |-> TRUE, placement |-> best.placement,
              placed_final |-> Translate(norm, best.placement.x, best.placement.y)]
        ELSE [placed |-> FALSE, placement |-> NoPlacement, placed_final |-> <<>>]

\* _try_place: whether the instance was placed, and what was appended.
TryPlace(inst, placed_polys) ==
    The({Commit(inst, best) :
            best \in {ScanRotations(inst, 1, GridStep(inst.buffered), placed_polys,
                                    [found |-> FALSE, x |-> 0, y |-> 0,
                                     placement |-> NoPlacement])}})

------------------------------------------------------------------------------
\* nest_parts, step by step.

\* SheetResult(index=i, width=sheet_width, height=sheet_height); utilization
\* is kept as a fraction <<numerator, denominator>>.
NewSheet(i) == [index |-> i, width |-> args.sheet_width,
                height |-> args.sheet_height, placements |-> <<>>,
                utilization |-> <<0, 1>>]

NestInit ==
    /\ args \in NestInputs \cup Scenarios
    /\ npc = "begin"
    /\ instances = <<>>
    /\ placeable = <<>>
    /\ sheets = <<>>
    /\ sheet_polygons = <<>>
    /\ skipped = <<>>

\* No call of nest_parts is running.
NestIdle ==
    /\ args = NoArgs
    /\ npc = "idle"
    /\ instances = <<>>
    /\ placeable = <<>>
    /\ sheets = <<>>
    /\ sheet_polygons = <<>>
    /\ skipped = <<>>

\* Lines 103-104: no usable area, an empty NestingResult is returned.
NestNoArea ==
    /\ npc = "begin"
    /\ usable_width <= 0 \/ usable_height <= 0
    /\ npc' = "done"
    /\ UNCHANGED <<args, instances, placeable, sheets, sheet_polygons, skipped>>
    /\ UNCHANGED wvars

\* Lines 107-137: the instances, sorted, and the first sheet.
NestBuild ==
    /\ npc = "begin"
    /\ ~(usable_width <= 0 \/ usable_height <= 0)
    /\ instances' = SortByArea(BuildInstances(args.parts))
    /\ sheets' = <<NewSheet(1)>>
    /\ sheet_polygons' = << <<>> >>
    /\ npc' = "prefilter"
    /\ UNCHANGED <<args, placeable, skipped>>
    /\ UNCHANGED wvars

\* A variant of lines 141-153 without the pre-filter: every instance goes to
\* the placement loop.
NestPrefilterKeepAll ==
    /\ npc = "prefilter"
    /\ skipped' = <<>>
    /\ placeable' = instances
    /\ npc' = "place"
    /\ UNCHANGED <<args, instances, sheets, sheet_polygons>>
    /\ UNCHANGED wvars

\* Lines 141-153: oversized instances are reported and filtered out.
NestPrefilter ==
    /\ npc = "prefilter"
    /\ LET oversized == {i \in 1..Len(instances) : IsOversized(instances[i].buffered)}
           entry(i) == [part_id |-> instances[i].id,
                        instance |-> instances[i].instance,
                        reason |-> "Too large for sheet at any rotation"]
       IN  /\ skipped' = [k \in 1..Cardinality(oversized) |->
                             entry(NthOf(oversized, k))]
           /\ placeable' = [k \in 1..(Len(instances) - Cardinality(oversized)) |->
                               instances[NthOf((1..Len(instances)) \ oversized, k)]]
    /\ npc' = "place"
    /\ UNCHANGED <<args, instances, sheets, sheet_polygons>>
    /\ UNCHANGED wvars

\* One pass of the loop of lines 155-180.
NestPlace ==
    /\ npc = "place"
    /\ placeable # <<>>
    /\ \E inst \in {Head(placeable)} :
       \E first \in {TryPlace(inst, sheet_polygons[Len(sheets)])} :
          IF first.placed
          THEN /\ sheets' = [sheets EXCEPT
                                ![Len(sheets)].placements = Append(@, first.placement)]
               /\ sheet_polygons' = [sheet_polygons EXCEPT
                                        ![Len(sheets)] = Append(@, first.placed_final)]
               /\ UNCHANGED skipped
          ELSE \E second \in {TryPlace(inst, <<>>)} :
               /\ sheets' = Append(sheets,
                      [NewSheet(Len(sheets) + 1) EXCEPT !.placements =
                          IF second.placed THEN <<second.placement>> ELSE <<>>])
               /\ sheet_polygons' = Append(sheet_polygons,
                      IF second.placed THEN <<second.placed_final>> ELSE <<>>)
               /\ skipped' = IF second.placed THEN skipped
                             ELSE Append(skipped,
                                     [part_id |-> inst.id, instance |-> inst.instance,
                                      reason |-> "Could not fit on any sheet"])
    /\ placeable' = Tail(placeable)
    /\ UNCHANGED <<args, npc, instances>>
    /\ UNCHANGED wvars

\* sum(p.polygon.area for p in sheet.placements)
OccupiedArea(sheet) ==
    SumSet(1..Len(sheet.placements),
           [i \in 1..Len(sheet.placements) |-> Area(sheet.placements[i].polygon)])

\* A variant of lines 183-194 that keeps the sheets without placements.
NestFinishKeepEmpty ==
    /\ npc = "place"
    /\ placeable = <<>>
    /\ sheets' = [k \in 1..Len(sheets) |->
                     [sheets[k] EXCEPT !.utilization = <<OccupiedArea(sheets[k]),
                                                         usable_area>>]]
    /\ npc' = "done"
    /\ UNCHANGED <<args, instances, placeable, sheet_polygons, skipped>>
    /\ UNCHANGED wvars

\* Lines 183-194: utilization, empty sheets removed, sheets re-indexed.
NestFinish ==
    /\ npc = "place"
    /\ placeable = <<>>
    /\ LET used == {i \in 1..Len(sheets) : sheets[i].placements # <<>>}
       IN  sheets' = [k \in 1..Cardinality(used) |->
                         [sheets[NthOf(used, k)] EXCEPT
                             !.utilization = <<OccupiedArea(sheets[NthOf(used, k)]),
                                               usable_area>>,
                             !.index = k]]
    /\ npc' = "done"
    /\ UNCHANGED <<args, instances, placeable, sheet_polygons, skipped>>
    /\ UNCHANGED wvars

NestNext == NestNoArea \/ NestBuild \/ NestPrefilter \/ NestPlace \/ NestFinish

------------------------------------------------------------------------------
WorkerInit ==
    /\ wq = [t \in Tasks |-> [status |-> "pending", errlen |-> 0]]
    /\ jobs = [j \in Jobs |-> [status |-> "pending", sheets_used |-> 0,
                               total_parts_placed |-> 0,
                               errlen |-> 0, completed_at |-> FALSE]]
    /\ itemMeta = [j \in Jobs |-> {}]
    /\ results = [j \in Jobs |-> <<>>]
    /\ blobs = {}
    /\ pc = [w \in Workers \cup {FreeCad} |-> "poll"]
    /\ task = [w \in Workers \cup {FreeCad} |-> NoTask]
    /\ dl = [w \in Workers |-> {}]
    /\ parts = [w \in Workers |-> {}]
    /\ itemIdx = [w \in Workers |-> 1]
    /\ nsheets = [w \in Workers |-> 0]
    /\ rows = [w \in Workers |-> <<>>]
    /\ written = [w \in Workers |-> <<>>]
    /\ err = [w \in Workers |-> NoErr]
    /\ intr = [w \in Workers |-> FALSE]
    /\ scratch = {}
    /\ runs = [t \in Tasks |-> 0]
    /\ faults = 0

\* An I/O call (store, storage, file system) may raise.
CanFail == faults < MaxFaults

Job(w) == PayloadJob(task[w])

\* The outline and the quantity of the items of a job: the items with an odd
\* item number are two squares, the others two of the wider rectangle.
ItemOutline(it) == IF it % 2 = 1 THEN Square ELSE Wide
ItemQuantity(it) == 2

\* parts_for_nesting (lines 157-161) for the set ps of items that yielded an
\* outline, in the order of job_items.
JobParts(ps) ==
    [k \in 1..Cardinality(ps) |->
        [id |-> NthOf(ps, k), polygon |-> ItemOutline(NthOf(ps, k)),
         quantity |-> ItemQuantity(NthOf(ps, k))]]

\* The parameter columns of a job row, set by create_nest_job and never
\* updated: they are drawn when nest_parts is called.
JobSpacings == {0}
JobRotationSteps == {90}
JobParams ==
    {[sheet_width |-> sz[1], sheet_height |-> sz[2], spacing |-> sp,
      margin |-> m, rotation_step |-> rs] :
        sz \in SheetSizes, sp \in JobSpacings, m \in Margins,
        rs \in JobRotationSteps}

\* Worker w has called nest_parts in its present call of process_nest_task.
Called(w) == pc[w] # "s5" /\ itemIdx[w] > NumItems /\ parts[w] # {}

\* The arguments and the result of nest_parts are gone.
NestReset ==
    /\ args' = NoArgs
    /\ npc' = "idle"
    /\ instances' = <<>>
    /\ placeable' = <<>>
    /\ sheets' = <<>>
    /\ sheet_polygons' = <<>>
    /\ skipped' = <<>>

\* The local variables of process_nest_task are gone when the call is left.
ResetLocals(w) ==
    /\ IF Called(w) THEN NestReset ELSE UNCHANGED nvars
    /\ dl' = [dl EXCEPT ![w] = {}]
    /\ parts' = [parts EXCEPT ![w] = {}]
    /\ itemIdx' = [itemIdx EXCEPT ![w] = 1]
    /\ nsheets' = [nsheets EXCEPT ![w] = 0]
    /\ rows' = [rows EXCEPT ![w] = <<>>]
    /\ written' = [written EXCEPT ![w] = <<>>]
    /\ err' = [err EXCEPT ![w] = NoErr]

\* An exception raised inside the try block: control moves to the handler.
Raise(w) ==
    /\ CanFail
    /\ faults' = faults + 1
    /\ \E n \in ErrLens : err' = [err EXCEPT ![w] = [len |-> n, at |-> pc[w]]]
    /\ pc' = [pc EXCEPT ![w] = "h1"]

\* The pending tasks a poll can return: the oldest pending NEST_PARTS row.
PendingTasks == {t \in Tasks : wq[t].status = "pending"}
OldestPending == CHOOSE t \in PendingTasks : \A u \in PendingTasks : t <= u


store == <<wq, jobs, itemMeta, results, blobs>>
locals == <<dl, parts, itemIdx, nsheets, rows, written, err>>
hist == <<runs>>

------------------------------------------------------------------------------
\* main(): the polling loop.

\* The select of lines 337-343 returns the oldest pending NEST_PARTS row.
Poll(w) ==
    /\ pc[w] = "poll"
    /\ PendingTasks # {}
    /\ task' = [task EXCEPT ![w] = OldestPending]
    /\ pc' = [pc EXCEPT ![w] = "claim"]
    /\ UNCHANGED <<store, locals, hist, intr, scratch, faults>>
    /\ UNCHANGED nvars

\* A variant of lines 355-356 in which a failed select ends the process.
PollFailExits(w) ==
    /\ pc[w] = "poll"
    /\ CanFail
    /\ faults' = faults + 1
    /\ pc' = [pc EXCEPT ![w] = "stopped"]
    /\ UNCHANGED <<store, locals, hist, task, intr, scratch>>
    /\ UNCHANGED nvars

\* The select raises: "Poll error", sleep, poll again.
PollFail(w) ==
    /\ pc[w] = "poll"
    /\ CanFail
    /\ faults' = faults + 1
    /\ UNCHANGED <<store, locals, hist, pc, task, intr, scratch>>
    /\ UNCHANGED nvars

\* A variant of the claim filter that forgets .eq("status", "pending").
ClaimMatchesAnyStatus(t) == TRUE

\* The rows the conditional update of claim_task matches.
ClaimMatches(t) == wq[t].status = "pending"

\* claim_task, then the branch of lines 347-350.
Claim(w) ==
    /\ pc[w] = "claim"
    /\ \/ /\ ClaimMatches(task[w])
          /\ wq' = [wq EXCEPT ![task[w]].status = "processing"]
          /\ runs' = [runs EXCEPT ![task[w]] = @ + 1]
          /\ pc' = [pc EXCEPT ![w] = "start"]
          /\ UNCHANGED faults
       \/ /\ ~ClaimMatches(task[w])
          /\ pc' = [pc EXCEPT ![w] = "poll"]
          /\ UNCHANGED <<wq, runs, faults>>
       \/ /\ CanFail
          /\ faults' = faults + 1
          /\ pc' = [pc EXCEPT ![w] = "poll"]
          /\ UNCHANGED <<wq, runs>>
    /\ UNCHANGED <<jobs, itemMeta, results, blobs, locals, task, intr, scratch>>
    /\ UNCHANGED nvars

------------------------------------------------------------------------------
\* complete_task: the update it sends.
TaskUpdate(t, msglen) ==
    IF wq[t].status = "deleted" THEN wq
    ELSE [wq EXCEPT ![t] = [status |-> IF msglen > 0 THEN "failed" ELSE "completed",
                            errlen |-> Min(msglen, ErrMsgMax)]]

\* The nest_jobs row of job j was deleted (delete_nest_job).
Gone(j) == jobs[j].status = "deleted"

\* An update of the nest_jobs row of job j: it matches no row once the row
\* is deleted.
JobUpdate(j, row) == IF Gone(j) THEN jobs ELSE [jobs EXCEPT ![j] = row]

\* process_nest_task, lines 79-81: no nest_job_id in the payload.
MissingPayload(w) ==
    /\ pc[w] = "start"
    /\ Job(w) = NoJob
    /\ \/ /\ wq' = TaskUpdate(task[w], 30)
          /\ UNCHANGED faults
       \/ /\ CanFail
          /\ faults' = faults + 1
          /\ UNCHANGED wq
    /\ pc' = [pc EXCEPT ![w] = "poll"]
    /\ UNCHANGED <<jobs, itemMeta, results, blobs, locals, task, intr, scratch, runs>>
    /\ UNCHANGED nvars

\* Lines 85-86: the scratch directory is created before the try block.
Mkdir(w) ==
    /\ pc[w] = "start"
    /\ Job(w) # NoJob
    /\ \/ /\ scratch' = scratch \cup {<<w, Job(w)>>}
          /\ pc' = [pc EXCEPT ![w] = "s1"]
          /\ UNCHANGED faults
       \/ \* mkdir raises OSError: caught by main() as a poll error
          /\ CanFail
          /\ faults' = faults + 1
          /\ pc' = [pc EXCEPT ![w] = "poll"]
          /\ UNCHANGED scratch
    /\ UNCHANGED <<store, locals, task, intr, runs>>
    /\ UNCHANGED nvars

\* Step 1, lines 90-92.
SetProcessing(w) ==
    /\ pc[w] = "s1"
    /\ \/ /\ jobs' = JobUpdate(Job(w), [jobs[Job(w)] EXCEPT !.status = "processing"])
          /\ pc' = [pc EXCEPT ![w] = "s2"]
          /\ UNCHANGED <<faults, err>>
       \/ Raise(w) /\ UNCHANGED jobs
    /\ UNCHANGED <<wq, itemMeta, results, blobs, dl, parts, itemIdx, nsheets, rows, written,
                   task, intr, scratch, hist>>
    /\ UNCHANGED nvars

\* Steps 2 and 3, lines 95-104: the job row and its items are read.
FetchJob(w) ==
    /\ pc[w] = "s2"
    /\ \/ /\ ~Gone(Job(w))
          /\ pc' = [pc EXCEPT ![w] = "s3"]
          /\ UNCHANGED <<faults, err>>
       \/ \* no row: .single() raises
          /\ Gone(Job(w))
          /\ err' = [err EXCEPT ![w] = [len |-> 1, at |-> "s2"]]
          /\ pc' = [pc EXCEPT ![w] = "h1"]
          /\ UNCHANGED faults
       \/ Raise(w)
    /\ UNCHANGED <<store, dl, parts, itemIdx, nsheets, rows, written, task, intr, scratch, hist>>
    /\ UNCHANGED nvars

FetchItems(w) ==
    /\ pc[w] = "s3"
    /\ \/ /\ ~Gone(Job(w))
          /\ pc' = [pc EXCEPT ![w] = "s4"]
          /\ UNCHANGED <<faults, err>>
       \/ \* the items went with the job: ValueError("No items in nest job")
          /\ Gone(Job(w))
          /\ err' = [err EXCEPT ![w] = [len |-> 20, at |-> "s3"]]
          /\ pc' = [pc EXCEPT ![w] = "h1"]
          /\ UNCHANGED faults
       \/ Raise(w)
    /\ UNCHANGED <<store, dl, parts, itemIdx, nsheets, rows, written, task, intr, scratch, hist>>
    /\ UNCHANGED nvars

\* A variant of step 4 in which one failed download fails the job.
DownloadAllOrFail(w) ==
    /\ pc[w] = "s4"
    /\ \E got \in SUBSET Items :
          /\ dl' = [dl EXCEPT ![w] = got]
          /\ IF got # Items
             THEN /\ err' = [err EXCEPT ![w] = [len |-> 32, at |-> "s4"]]
                  /\ pc' = [pc EXCEPT ![w] = "h1"]
             ELSE /\ pc' = [pc EXCEPT ![w] = "s5"]
                  /\ UNCHANGED err
    /\ UNCHANGED <<store, parts, itemIdx, nsheets, rows, written, task, intr, scratch, hist, faults>>
    /\ UNCHANGED nvars

\* Step 4, lines 110-130: a failed download is logged and the item skipped;
\* no download at all raises ValueError.
Download(w) ==
    /\ pc[w] = "s4"
    /\ \E got \in SUBSET Items :
          /\ dl' = [dl EXCEPT ![w] = got]
          /\ IF got = {}
             THEN \* ValueError("Failed to download any DXF files")
                  /\ err' = [err EXCEPT ![w] = [len |-> 32, at |-> "s4"]]
                  /\ pc' = [pc EXCEPT ![w] = "h1"]
             ELSE /\ pc' = [pc EXCEPT ![w] = "s5"]
                  /\ UNCHANGED err
    /\ UNCHANGED <<store, parts, itemIdx, nsheets, rows, written, task, intr, scratch, hist, faults>>
    /\ UNCHANGED nvars

\* Step 5, lines 133-164, one iteration of the loop over job_items.
ParseItem(w) ==
    /\ pc[w] = "s5"
    /\ itemIdx[w] <= NumItems
    /\ LET i == itemIdx[w] IN
       \/ \* not downloaded, or no valid polygon: skipped
          /\ itemIdx' = [itemIdx EXCEPT ![w] = i + 1]
          /\ UNCHANGED <<parts, itemMeta, pc, err, faults>>
       \/ \* an outline: the item row is updated and the part kept
          /\ i \in dl[w]
          /\ itemMeta' = IF Gone(Job(w)) THEN itemMeta
                          ELSE [itemMeta EXCEPT ![Job(w)] = @ \cup {i}]
          /\ parts' = [parts EXCEPT ![w] = @ \cup {i}]
          /\ itemIdx' = [itemIdx EXCEPT ![w] = i + 1]
          /\ UNCHANGED <<pc, err, faults>>
       \/ \* the file is unreadable: ezdxf.readfile raises (dxf_parser.py,
          \* line 33), nothing between it and the except block catches it
          /\ i \in dl[w]
          /\ \E n \in ErrLens : err' = [err EXCEPT ![w] = [len |-> n, at |-> "readfile"]]
          /\ pc' = [pc EXCEPT ![w] = "h1"]
          /\ UNCHANGED <<parts, itemMeta, itemIdx, faults>>
       \/ \* the item update raises
          /\ i \in dl[w]
          /\ Raise(w)
          /\ UNCHANGED <<parts, itemMeta, itemIdx>>
    /\ UNCHANGED <<wq, jobs, results, blobs, dl, nsheets, rows, written, task, intr, scratch, hist>>
    /\ UNCHANGED nvars

\* Step 6, lines 163-176: nest_parts is called with the parts and the
\* parameters of the job row; one call runs at a time.
Nest(w) ==
    /\ pc[w] = "s5"
    /\ itemIdx[w] > NumItems
    /\ IF parts[w] = {}
       THEN \* ValueError("No valid geometry found in any DXF files")
            /\ err' = [err EXCEPT ![w] = [len |-> 40, at |-> "s5"]]
            /\ pc' = [pc EXCEPT ![w] = "h1"]
            /\ UNCHANGED nvars
       ELSE /\ npc = "idle"
            /\ \E p \in JobParams :
                  args' = [parts |-> JobParts(parts[w]),
                           sheet_width |-> p.sheet_width,
                           sheet_height |-> p.sheet_height,
                           spacing |-> p.spacing, margin |-> p.margin,
                           rotation_step |-> p.rotation_step]
            /\ npc' = "begin"
            /\ pc' = [pc EXCEPT ![w] = "s6"]
            /\ UNCHANGED <<err, instances, placeable, sheets, sheet_polygons, skipped>>
    /\ UNCHANGED <<store, dl, parts, itemIdx, nsheets, rows, written, task, intr, scratch,
                   hist, faults>>

\* Line 169: nest_parts has returned; its own local variables are gone, the
\* result (sheets, skipped) stays.
NestReturn(w) ==
    /\ pc[w] = "s6"
    /\ npc = "done"
    /\ nsheets' = [nsheets EXCEPT ![w] = Len(sheets)]
    /\ pc' = [pc EXCEPT ![w] = "s7"]
    /\ instances' = <<>>
    /\ placeable' = <<>>
    /\ sheet_polygons' = <<>>
    /\ UNCHANGED <<args, npc, sheets, skipped>>
    /\ UNCHANGED <<store, dl, parts, itemIdx, rows, written, err, task, intr, scratch,
                   hist,
                   faults>>

\* result.total_parts_placed
TotalPartsPlaced ==
    SumSet(1..Len(sheets), [k \in 1..Len(sheets) |-> Len(sheets[k].placements)])

\* Object-store paths under the output prefix of job j: sheet_{i:02d}.dxf and
\* manifest.json.
SheetBlob(j, i) == [job |-> j, kind |-> "dxf", idx |-> i]
ManifestBlob(j) == [job |-> j, kind |-> "manifest", idx |-> 0]
\* A path column that was not set.
NoPath == [job |-> NoJob, kind |-> "none", idx |-> 0]

\* Lines 225-232: the nest_results row of sheet i; the dict has no svg_path.
ResultRow(j, i) == [sheet_index |-> i, dxf_path |-> SheetBlob(j, i), svg_path |-> NoPath]

\* dxf_writer.py, line 60: the label f"{part_id}#{instance}".
Label(p) == <<p.part_id, "#", p.instance>>

\* dxf_writer.py, _insert_part_from_dxf: the entities of the source DXF (the
\* closed outline), transformed, on layer PARTS for placement k.
InsertPartFromDxf(k) ==
    {[layer |-> "PARTS", type |-> "LWPOLYLINE", closed |-> TRUE,
      from |-> "source", place |-> k, text |-> <<>>]}

\* A variant of _draw_polygon that draws nothing.
DrawNothing(k, polygon) ==
    {}

\* dxf_writer.py, _draw_polygon: the exterior of the placement polygon as a
\* closed LWPOLYLINE; nothing when it has fewer than three coordinates.
DrawPolygon(k, polygon) ==
    IF IsEmpty(polygon) THEN {}
    ELSE {[layer |-> "PARTS", type |-> "LWPOLYLINE", closed |-> TRUE,
           from |-> "polygon", place |-> k, text |-> <<>>]}

\* dxf_writer.py, lines 47-68: the entities written for placement k of the
\* sheet; unreadable says whether reading its source DXF raises.
PlacementEntities(sheet, k, original_dxf_paths, unreadable) ==
    LET p == sheet.placements[k]
    IN  IF p.part_id \notin original_dxf_paths THEN {}
        ELSE (IF unreadable THEN DrawPolygon(k, p.polygon)
                            ELSE InsertPartFromDxf(k))
             \cup {[layer |-> "LABELS", type |-> "TEXT", closed |-> FALSE,
                    from |-> "label", place |-> k, text |-> Label(p)]}

\* write_nested_sheet: the sheet boundary and the entities of every
\* placement; bad is the set of placements whose source DXF cannot be read.
WriteNestedSheet(sheet, original_dxf_paths, bad) ==
    {[layer |-> "SHEET", type |-> "LWPOLYLINE", closed |-> TRUE,
      from |-> "sheet", place |-> 0, text |-> <<>>]}
    \cup UNION {PlacementEntities(sheet, k, original_dxf_paths, k \in bad) :
                   k \in 1..Len(sheet.placements)}

\* Step 7, lines 184-233, one iteration: the sheet DXF is written and uploaded
\* (update on "already exists"), and its result row is built.  Reading a
\* source DXF inside write_nested_sheet may fail; that failure is caught there.
SheetStep(w) ==
    /\ pc[w] = "s7"
    /\ Len(rows[w]) < nsheets[w]
    /\ LET sheet == sheets[Len(rows[w]) + 1]
           i == sheet.index
       IN
       \/ /\ \E bad \in {b \in SUBSET (1..Len(sheet.placements)) :
                              faults + Cardinality(b) <= MaxFaults} :
                /\ written' = [written EXCEPT ![w] =
                                  Append(@, WriteNestedSheet(sheet, dl[w], bad))]
                /\ faults' = faults + Cardinality(bad)
          /\ blobs' = blobs \cup {SheetBlob(Job(w), i)}
          /\ rows' = [rows EXCEPT ![w] = Append(@, ResultRow(Job(w), i))]
          /\ UNCHANGED <<pc, err>>
       \/ Raise(w) /\ UNCHANGED <<blobs, rows, written>>
    /\ UNCHANGED <<wq, jobs, itemMeta, results, dl, parts, itemIdx, nsheets, task,
                   intr, scratch, hist>>
    /\ UNCHANGED nvars

\* Step 8, lines 236-281: the manifest is uploaded.
Manifest(w) ==
    /\ pc[w] = "s7"
    /\ Len(rows[w]) = nsheets[w]
    /\ \/ /\ blobs' = blobs \cup {ManifestBlob(Job(w))}
          /\ pc' = [pc EXCEPT ![w] = "s9"]
          /\ UNCHANGED <<err, faults>>
       \/ Raise(w) /\ UNCHANGED blobs
    /\ UNCHANGED <<wq, jobs, itemMeta, results, dl, parts, itemIdx, nsheets, rows, written,
                   task, intr, scratch, hist>>
    /\ UNCHANGED nvars

\* Step 9, lines 284-285: the result rows are inserted, if there are any.
InsertResults(w) ==
    /\ pc[w] = "s9"
    /\ \/ /\ ~Gone(Job(w)) \/ rows[w] = <<>>
          /\ results' = [results EXCEPT ![Job(w)] = @ \o rows[w]]
          /\ pc' = [pc EXCEPT ![w] = "s10"]
          /\ UNCHANGED <<err, faults>>
       \/ \* the job row is gone: the insert violates the foreign key
          /\ Gone(Job(w)) /\ rows[w] # <<>>
          /\ err' = [err EXCEPT ![w] = [len |-> 1, at |-> "s9"]]
          /\ pc' = [pc EXCEPT ![w] = "h1"]
          /\ UNCHANGED <<results, faults>>
       \/ rows[w] # <<>> /\ Raise(w) /\ UNCHANGED results
    /\ UNCHANGED <<wq, jobs, itemMeta, blobs, dl, parts, itemIdx, nsheets, rows, written,
                   task, intr, scratch, hist>>
    /\ UNCHANGED nvars

\* Step 10, lines 288-295.
SetCompleted(w) ==
    /\ pc[w] = "s10"
    /\ \/ /\ jobs' = JobUpdate(Job(w),
                        [jobs[Job(w)] EXCEPT !.status = "completed",
                                             !.sheets_used = nsheets[w],
                                             !.total_parts_placed = TotalPartsPlaced,
                                             !.completed_at = TRUE])
          /\ pc' = [pc EXCEPT ![w] = "s11"]
          /\ UNCHANGED <<err, faults>>
       \/ Raise(w) /\ UNCHANGED jobs
    /\ UNCHANGED <<wq, itemMeta, results, blobs, dl, parts, itemIdx, nsheets, rows, written,
                   task, intr, scratch, hist>>
    /\ UNCHANGED nvars

\* Step 11, line 298: complete_task(supabase, task_id).
CompleteTask(w) ==
    /\ pc[w] = "s11"
    /\ \/ /\ wq' = TaskUpdate(task[w], 0)
          /\ pc' = [pc EXCEPT ![w] = "fin"]
          /\ UNCHANGED <<err, faults>>
       \/ Raise(w) /\ UNCHANGED wq
    /\ UNCHANGED <<jobs, itemMeta, results, blobs, dl, parts, itemIdx, nsheets, rows, written,
                   task, intr, scratch, hist>>
    /\ UNCHANGED nvars

\* The except block, lines 304-308: the job row is marked failed.
HandlerJob(w) ==
    /\ pc[w] = "h1"
    /\ \/ /\ jobs' = JobUpdate(Job(w),
                        [jobs[Job(w)] EXCEPT !.status = "failed",
                                             !.errlen = Min(err[w].len, ErrMsgMax),
                                             !.completed_at = TRUE])
          /\ pc' = [pc EXCEPT ![w] = "h2"]
          /\ UNCHANGED faults
       \/ \* the update raises inside the handler: the exception leaves the call
          /\ CanFail
          /\ faults' = faults + 1
          /\ pc' = [pc EXCEPT ![w] = "fin"]
          /\ UNCHANGED jobs
    /\ UNCHANGED <<wq, itemMeta, results, blobs, locals, task, intr, scratch, hist>>
    /\ UNCHANGED nvars

\* The except block, line 309: complete_task(supabase, task_id, str(e)).
HandlerTask(w) ==
    /\ pc[w] = "h2"
    /\ \/ /\ wq' = TaskUpdate(task[w], err[w].len)
          /\ UNCHANGED faults
       \/ /\ CanFail
          /\ faults' = faults + 1
          /\ UNCHANGED wq
    /\ pc' = [pc EXCEPT ![w] = "fin"]
    /\ UNCHANGED <<jobs, itemMeta, results, blobs, locals, task, intr, scratch, hist>>
    /\ UNCHANGED nvars

\* The finally block, lines 311-314, then back in main(): the loop goes on,
\* or ends when a KeyboardInterrupt is propagating.
Finally(w) ==
    /\ pc[w] = "fin"
    /\ scratch' = scratch \ {<<w, Job(w)>>}
    /\ pc' = [pc EXCEPT ![w] = IF intr[w] THEN "stopped" ELSE "poll"]
    /\ ResetLocals(w)
    /\ UNCHANGED <<store, task, intr, runs, faults>>

------------------------------------------------------------------------------
\* KeyboardInterrupt (lines 352-354). It is not an Exception: the except block
\* of process_nest_task does not catch it, the finally block runs.

\* In main(), or in process_nest_task before the scratch directory is made.
InterruptOutside(w) ==
    /\ pc[w] \in {"poll", "claim", "start"}
    /\ pc' = [pc EXCEPT ![w] = "stopped"]
    /\ UNCHANGED <<store, locals, task, intr, scratch, hist, faults>>
    /\ UNCHANGED nvars

\* While work_dir.mkdir runs: it is raised when the call returns, on line 86,
\* which the try block of line 88 does not cover.
InterruptInMkdir(w) ==
    /\ pc[w] = "start"
    /\ Job(w) # NoJob
    /\ scratch' = scratch \cup {<<w, Job(w)>>}
    /\ pc' = [pc EXCEPT ![w] = "stopped"]
    /\ UNCHANGED <<store, locals, task, intr, hist, faults>>
    /\ UNCHANGED nvars

\* Inside the try block or the except block: the finally block runs next.
InterruptInTry(w) ==
    /\ pc[w] \in TryBody \cup Handler
    /\ intr' = [intr EXCEPT ![w] = TRUE]
    /\ pc' = [pc EXCEPT ![w] = "fin"]
    /\ ResetLocals(w)
    /\ UNCHANGED <<store, task, scratch, hist, faults>>

\* Inside the finally block, before rmtree has removed the directory.
InterruptInFinally(w) ==
    /\ pc[w] = "fin"
    /\ pc' = [pc EXCEPT ![w] = "stopped"]
    /\ intr' = [intr EXCEPT ![w] = TRUE]
    /\ ResetLocals(w)
    /\ UNCHANGED <<store, task, scratch, hist, faults>>

WorkerStep(w) ==
    \/ Poll(w) \/ PollFail(w) \/ Claim(w)
    \/ MissingPayload(w) \/ Mkdir(w)
    \/ SetProcessing(w) \/ FetchJob(w) \/ FetchItems(w) \/ Download(w)
    \/ ParseItem(w) \/ Nest(w) \/ NestReturn(w) \/ SheetStep(w) \/ Manifest(w)
    \/ InsertResults(w) \/ SetCompleted(w) \/ CompleteTask(w)
    \/ HandlerJob(w) \/ HandlerTask(w) \/ Finally(w)

Interrupt(w) ==
    \/ InterruptOutside(w) \/ InterruptInMkdir(w)
    \/ InterruptInTry(w) \/ InterruptInFinally(w)

WorkerNext == \E w \in Workers : WorkerStep(w) \/ Interrupt(w)

------------------------------------------------------------------------------
\* routes/nesting.py: DELETE /jobs/{nest_job_id}.

\* The storage paths delete_nest_job collects: the dxf_path and svg_path of
\* the result rows, and the manifest.
DeletePaths(j) ==
    {results[j][k].dxf_path : k \in 1..Len(results[j])}
    \cup {results[j][k].svg_path : k \in {i \in 1..Len(results[j]) :
                                             results[j][i].svg_path # NoPath}}
    \cup {ManifestBlob(j)}

\* delete_nest_job for an existing job: the storage remove (best effort, a
\* failure is swallowed), then the rows of nest_results, nest_job_items,
\* work_queue and nest_jobs.
DeleteJob(j) ==
    /\ ~Gone(j)
    /\ \/ blobs' = blobs \ DeletePaths(j) /\ UNCHANGED faults
       \/ CanFail /\ faults' = faults + 1 /\ UNCHANGED blobs
    /\ results' = [results EXCEPT ![j] = <<>>]
    /\ itemMeta' = [itemMeta EXCEPT ![j] = {}]
    /\ wq' = [t \in Tasks |-> IF PayloadJob(t) = j
                              THEN [wq[t] EXCEPT !.status = "deleted"] ELSE wq[t]]
    /\ jobs' = [jobs EXCEPT ![j].status = "deleted"]
    /\ UNCHANGED <<locals, pc, task, intr, scratch, hist>>
    /\ UNCHANGED nvars

ApiNext == \E j \in Jobs : DeleteJob(j)

------------------------------------------------------------------------------
\* worker_loop.py: the FreeCAD worker, polling the same work_queue table.

\* len("Unknown task type: NEST_PARTS"), the message of line 212.
UnknownTypeLen == 29

\* The select of lines 291-296: the oldest pending row of any task type.
FreeCadPoll ==
    /\ pc[FreeCad] = "poll"
    /\ PendingTasks # {}
    /\ task' = [task EXCEPT ![FreeCad] = OldestPending]
    /\ pc' = [pc EXCEPT ![FreeCad] = "claim"]
    /\ UNCHANGED <<store, locals, hist, intr, scratch, faults>>
    /\ UNCHANGED nvars

\* claim_task (lines 72-82) and the branch of lines 302-305.
FreeCadClaim ==
    /\ pc[FreeCad] = "claim"
    /\ IF wq[task[FreeCad]].status = "pending"
       THEN /\ wq' = [wq EXCEPT ![task[FreeCad]].status = "processing"]
            /\ pc' = [pc EXCEPT ![FreeCad] = "process"]
       ELSE /\ pc' = [pc EXCEPT ![FreeCad] = "poll"]
            /\ UNCHANGED wq
    /\ UNCHANGED <<jobs, itemMeta, results, blobs, locals, hist, task, intr,
                   scratch, faults>>
    /\ UNCHANGED nvars

\* complete_task (lines 85-94) with an error message.
FreeCadTaskUpdate(t, msglen) ==
    IF wq[t].status = "deleted" THEN wq
    ELSE [wq EXCEPT ![t] = [status |-> IF msglen > 0 THEN "failed" ELSE "completed",
                            errlen |-> Min(msglen, ErrMsgMax)]]

\* process_task for a NEST_PARTS row: the task type is not in TASK_MAP
\* (lines 211-213), the task is marked failed.
FreeCadUnknownType ==
    /\ pc[FreeCad] = "process"
    /\ wq' = FreeCadTaskUpdate(task[FreeCad], UnknownTypeLen)
    /\ pc' = [pc EXCEPT ![FreeCad] = "poll"]
    /\ UNCHANGED <<jobs, itemMeta, results, blobs, locals, hist, task, intr,
                   scratch, faults>>
    /\ UNCHANGED nvars

\* KeyboardInterrupt in the loop of worker_loop.py (lines 307-309).
FreeCadInterrupt ==
    /\ pc[FreeCad] # "stopped"
    /\ pc' = [pc EXCEPT ![FreeCad] = "stopped"]
    /\ UNCHANGED <<store, locals, hist, task, intr, scratch, faults>>
    /\ UNCHANGED nvars

FreeCadNext == FreeCadPoll \/ FreeCadClaim \/ FreeCadUnknownType \/ FreeCadInterrupt

TypeOK ==
    /\ \A t \in Tasks : wq[t].status \in {"pending", "processing", "deleted"} \cup Terminal
    /\ \A j \in Jobs : jobs[j].status \in {"pending", "processing", "deleted"} \cup Terminal
    /\ faults \in 0..MaxFaults

------------------------------------------------------------------------------
vars == <<wvars, nvars>>

Init == WorkerInit /\ NestIdle
Next == WorkerNext \/ ApiNext \/ NestNext
Spec == Init /\ [][Next]_vars

\* The nesting workers and the FreeCAD worker on one work_queue table.
SharedNext == WorkerNext \/ ApiNext \/ NestNext \/ FreeCadNext
SharedSpec == Init /\ [][SharedNext]_vars

\* One call of nest_parts; no worker runs.
InitNest == WorkerInit /\ NestInit
NestSpec == InitNest /\ [][NestNext]_vars

------------------------------------------------------------------------------
\* Properties of the worker loop.

\* Positions inside a call of process_nest_task.
InProcess == {"start"} \cup TryBody \cup Handler \cup {"fin"}

\* C1: of the workers that polled a task while it was pending and then call
\* claim_task, at most one gets True; no two workers are ever inside
\* process_nest_task for the same task.
C1_AtMostOneClaim ==
    /\ \A t \in Tasks : runs[t] <= 1
    /\ \A w1 \in Workers : \A w2 \in Workers \ {w1} :
          (pc[w1] \in InProcess /\ pc[w2] \in InProcess) => task[w1] # task[w2]

\* Two workers polled the same pending task: the claim of one returned True
\* (it is processing), the claim of the other returned False (it is back at the
\* poll, and no call has raised).
C1_Witness ==
    \E w1 \in Workers : \E w2 \in Workers \ {w1} :
        /\ task[w1] # NoTask /\ task[w2] = task[w1]
        /\ pc[w1] = "start" /\ pc[w2] = "poll"
        /\ runs[task[w1]] = 1 /\ faults = 0

\* C2: every task is processed at most once and is drained: a task in status
\* processing always has a worker inside process_nest_task for it, unless that
\* worker was interrupted (so it cannot stay in processing for ever while the
\* loop keeps polling).
C2_DrainedOnce ==
    /\ \A t \in Tasks : runs[t] <= 1
    /\ \A t \in Tasks : wq[t].status = "processing" =>
          \E w \in Workers : task[w] = t /\ pc[w] \in InProcess \cup {"stopped"}

\* C3: the status of a nest job row only moves pending -> processing ->
\* completed | failed; a terminal status is never changed.
C3_Moves == {<<"pending", "processing">>, <<"processing", "completed">>,
             <<"processing", "failed">>}
C3_StatusMachine ==
    [][\A j \in Jobs : (jobs'[j].status # jobs[j].status /\ ~Gone(j)') =>
           <<jobs[j].status, jobs'[j].status>> \in C3_Moves]_vars

\* C4: when a step from loading the job row onward has raised and the except
\* block of process_nest_task is over, the job row is failed with
\* error_message of at most 2000 characters and completed_at set, and the
\* work-queue task is failed.
C4_BothFailed ==
    \A w \in Workers : (pc[w] = "fin" /\ err[w] # NoErr /\ err[w].at # "s1"
                          /\ ~Gone(Job(w))) =>
        /\ jobs[Job(w)].status = "failed"
        /\ jobs[Job(w)].errlen <= ErrMsgMax
        /\ jobs[Job(w)].completed_at
        /\ wq[task[w]].status = "failed"

\* C5: a scratch directory exists only while its worker is inside the call of
\* process_nest_task that made it: on every way out it has been removed.
C5_ScratchRemoved ==
    \A w \in Workers : \A j \in Jobs : <<w, j>> \in scratch =>
        (pc[w] \in TryBody \cup Handler \cup {"fin"} /\ Job(w) = j)

------------------------------------------------------------------------------
\* Properties of nest_parts.

\* The placements of the sheets, as <<sheet, position>>.
AllPlacements ==
    {sp \in (1..Len(sheets)) \X (1..(MaxParts * MaxQty)) :
        sp[2] <= Len(sheets[sp[1]].placements)}

PlacementAt(sp) == sheets[sp[1]].placements[sp[2]]

\* How often instance k of part id occurs among the placements and the
\* skipped entries.
Occurrences(id, k) ==
    Cardinality({sp \in AllPlacements :
                    PlacementAt(sp).part_id = id /\ PlacementAt(sp).instance = k})
    + Cardinality({i \in 1..Len(skipped) :
                      skipped[i].part_id = id /\ skipped[i].instance = k})

TotalQuantity ==
    SumSet(1..Len(args.parts), [i \in 1..Len(args.parts) |-> args.parts[i].quantity])

\* C6: when nest_parts returns, the number of placements over all sheets plus
\* the number of skipped entries is the sum of the input quantities, and every
\* instance of every part occurs exactly once among them.
C6_Conservation ==
    npc = "done" =>
        /\ Cardinality(AllPlacements) + Len(skipped) = TotalQuantity
        /\ \A i \in 1..Len(args.parts) : \A k \in 1..args.parts[i].quantity :
               Occurrences(args.parts[i].id, k) = 1

\* C7: on every sheet the buffered polygons of two different placements, as
\* rotated and positioned, have no interior point in common.
C7_NoOverlap ==
    \A s \in 1..Len(sheet_polygons) :
        \A i \in 1..Len(sheet_polygons[s]) : \A j \in 1..Len(sheet_polygons[s]) :
            i < j => ~Overlaps(sheet_polygons[s][i], sheet_polygons[s][j])

\* Two polygons share boundary points only.
Touches(p, q) ==
    /\ ~Overlaps(p, q)
    /\ \E i \in 1..Len(p) : \E j \in 1..Len(q) :
          /\ Max(p[i].x1, q[j].x1) <= Min(p[i].x2, q[j].x2)
          /\ Max(p[i].y1, q[j].y1) <= Min(p[i].y2, q[j].y2)

\* nest_parts has returned a sheet of three or more parts, placed with a
\* positive spacing, two of whose buffered polygons touch.
C7_Witness ==
    /\ npc = "done"
    /\ args.spacing > 0
    /\ \E s \in 1..Len(sheet_polygons) :
          /\ Len(sheet_polygons[s]) >= 3
          /\ s <= Len(sheets) /\ Len(sheets[s].placements) = Len(sheet_polygons[s])
          /\ \E i \in 1..Len(sheet_polygons[s]) : \E j \in 1..Len(sheet_polygons[s]) :
                i < j /\ Touches(sheet_polygons[s][i], sheet_polygons[s][j])

\* C8: the bounds of every placed original polygon lie within
\* [margin, W - margin] x [margin, H - margin] of the sheet.
C8_WithinMargins ==
    \A sp \in AllPlacements :
        LET b == Bounds(PlacementAt(sp).polygon)
        IN  /\ args.margin <= b.x1 /\ b.x2 <= args.sheet_width - args.margin
            /\ args.margin <= b.y1 /\ b.y2 <= args.sheet_height - args.margin

\* The distance between two intervals.
Gap(a1, a2, b1, b2) == Max(0, Max(b1 - a2, a1 - b2))

\* The polygons p and q are at least d apart.
Apart(p, q, d) ==
    \A i \in 1..Len(p) : \A j \in 1..Len(q) :
        LET dx == Gap(p[i].x1, p[i].x2, q[j].x1, q[j].x2)
            dy == Gap(p[i].y1, p[i].y2, q[j].y1, q[j].y2)
        IN  dx * dx + dy * dy >= d * d

\* C9: any two placed original polygons of a sheet are at least spacing apart.
C9_SpacingKept ==
    \A sp \in AllPlacements : \A sq \in AllPlacements :
        (sp[1] = sq[1] /\ sp[2] < sq[2]) =>
            Apart(PlacementAt(sp).polygon, PlacementAt(sq).polygon, args.spacing)

\* The sheets that were opened and received a placement, in opening order.
OpenedUsed == {s \in 1..Len(sheet_polygons) : sheet_polygons[s] # <<>>}

\* C11: every returned sheet has a placement, the returned sheets carry the
\* indices 1, 2, ..., n, and they are the opened sheets that received a
\* placement, in the order they were opened.
C11_NoEmptySheets ==
    npc = "done" =>
        /\ \A k \in 1..Len(sheets) :
              /\ sheets[k].placements # <<>>
              /\ sheets[k].index = k
        /\ usable_width > 0 /\ usable_height > 0 =>
              /\ Len(sheets) = Cardinality(OpenedUsed)
              /\ \A k \in 1..Len(sheets) :
                    LET placed == sheet_polygons[NthOf(OpenedUsed, k)]
                    IN  /\ Len(sheets[k].placements) = Len(placed)
                        /\ \A i \in 1..Len(placed) :
                              /\ sheets[k].placements[i].x = Bounds(placed[i]).x1
                              /\ sheets[k].placements[i].y = Bounds(placed[i]).y1

\* nest_parts has returned two sheets or more.
C11_Witness == npc = "done" /\ Len(sheets) >= 2

------------------------------------------------------------------------------
\* Properties of the worker: partial input failures and outputs.

\* Some downloads of the job of worker w failed, and an item that was
\* downloaded gave an outline.
PartialDownload(w) == dl[w] # {} /\ dl[w] # Items /\ parts[w] # {}

\* C12: failed downloads do not fail the job while another item is downloaded
\* and parsed: the download step raises only when no item was downloaded, and
\* without any other error the job and its task end completed.
C12_DownloadFailuresSkipped ==
    \A w \in Workers :
        /\ err[w].at = "s4" => dl[w] = {}
        /\ (pc[w] = "fin" /\ PartialDownload(w) /\ faults = 0 /\ ~intr[w]
               /\ err[w].at # "readfile" /\ ~Gone(Job(w))) =>
              /\ jobs[Job(w)].status = "completed"
              /\ wq[task[w]].status = "completed"

\* A worker has finished a job completed although a download had failed.
C12_Witness ==
    \E w \in Workers :
        /\ pc[w] = "fin" /\ PartialDownload(w) /\ faults = 0 /\ ~intr[w]
        /\ jobs[Job(w)].status = "completed"

\* C13: an unreadable DXF of one item does not fail a job in which another
\* item gave a valid polygon.
C13_UnreadableSkipped ==
    \A w \in Workers :
        (pc[w] = "fin" /\ err[w].at = "readfile" /\ parts[w] # {}) =>
            jobs[Job(w)].status # "failed"

\* {output_prefix}sheet_{i:02d}.svg
SheetSvg(j, i) == [job |-> j, kind |-> "svg", idx |-> i]

\* C14: for every sheet of a completed job the DXF and the SVG have been
\* uploaded and the nest_results row of the sheet records both paths.
C14_DxfAndSvgUploaded ==
    \A j \in Jobs : jobs[j].status = "completed" =>
        \A k \in 1..Len(results[j]) :
            LET row == results[j][k]
            IN  /\ row.dxf_path = SheetBlob(j, row.sheet_index)
                /\ row.dxf_path \in blobs
                /\ row.svg_path = SheetSvg(j, row.sheet_index)
                /\ row.svg_path \in blobs

\* The outputs of job j exist: the DXF of every sheet, the manifest, and one
\* nest_results row per sheet, in sheet order.
OutputsExist(j) ==
    /\ \A i \in 1..jobs[j].sheets_used : SheetBlob(j, i) \in blobs
    /\ ManifestBlob(j) \in blobs
    /\ Len(results[j]) = jobs[j].sheets_used
    /\ \A k \in 1..Len(results[j]) : results[j][k].sheet_index = k

\* C15: whenever a job row is completed its outputs exist, and the task of a
\* job is marked completed only when the job row is.
C15_OutputsBeforeCompleted ==
    \A j \in Jobs :
        /\ jobs[j].status = "completed" => OutputsExist(j)
        /\ \A t \in Tasks : (PayloadJob(t) = j /\ wq[t].status = "completed") =>
               jobs[j].status = "completed"


\* C16: a job whose status is pending, processing or failed has no
\* nest_results rows, and the rows of a job disappear only when the job row
\* is deleted.
C16_RowsOnlyWhenCompleted ==
    [][\A j \in Jobs :
          /\ jobs'[j].status \in {"pending", "processing", "failed"} =>
                 results'[j] = <<>>
          /\ Len(results'[j]) < Len(results[j]) => Gone(j)']_vars


\* C17: when delete_nest_job returns for a job, whatever its status, and
\* the storage remove succeeded, no nest_results, nest_job_items, work_queue
\* or nest_jobs row of the job remains and no blob under the output prefix
\* of the job remains.
C17_DeleteLeavesNothing ==
    [][\A j \in Jobs :
          (~Gone(j) /\ Gone(j)' /\ faults' = faults) =>
              /\ results'[j] = <<>>
              /\ itemMeta'[j] = {}
              /\ \A t \in Tasks : PayloadJob(t) = j => wq'[t].status = "deleted"
              /\ \A b \in blobs' : b.job # j]_vars


------------------------------------------------------------------------------
\* Properties of a job whose parts are all too large.

\* The sheet has a usable area and every part of the call is oversized at
\* every admitted rotation (_is_oversized on its buffered polygon).
AllOversized ==
    /\ args # NoArgs
    /\ usable_width > 0 /\ usable_height > 0
    /\ \A i \in 1..Len(args.parts) :
          IsOversized(Buffer(args.parts[i].polygon, args.spacing \div 2))

\* The (part id, instance) pairs of the call.
CallInstances ==
    UNION {{<<args.parts[i].id, k>> : k \in 1..args.parts[i].quantity} :
              i \in 1..Len(args.parts)}

C19_InvalidPartsSkipped ==
    (npc = "done" /\ usable_width > 0 /\ usable_height > 0) =>
        \A i \in 1..Len(args.parts) :
            LET part == args.parts[i]
                buffered == Buffer(part.polygon, args.spacing \div 2)
            IN  (~IsValid(part.polygon) \/ IsEmpty(part.polygon)
                    \/ ~IsValid(buffered) \/ IsEmpty(buffered)) =>
                \A k \in 1..part.quantity :
                    \E s \in 1..Len(skipped) :
                        /\ skipped[s].part_id = part.id
                        /\ skipped[s].instance = k
                        /\ skipped[s].reason # ""


------------------------------------------------------------------------------
\* Properties of the sheet DXF files.

\* C20: every sheet DXF written holds, for every placement of its sheet,
\* geometry on layer PARTS (the transformed source entities, or the placement
\* polygon as a closed LWPOLYLINE) and the label part_id#instance on layer
\* LABELS: no placement is left out.
C20_EveryPlacementDrawn ==
    \A w \in Workers : \A f \in 1..Len(written[w]) :
        \A k \in 1..Len(sheets[f].placements) :
            /\ \E e \in written[w][f] :
                  /\ e.layer = "PARTS" /\ e.place = k
                  /\ \/ e.from = "source"
                     \/ e.from = "polygon" /\ e.type = "LWPOLYLINE" /\ e.closed
            /\ \E e \in written[w][f] :
                  /\ e.layer = "LABELS" /\ e.place = k
                  /\ e.text = <<sheets[f].placements[k].part_id, "#",
                                sheets[f].placements[k].instance>>

\* A sheet with several placements was written while the source DXF of one
\* of them could not be read: it holds a fallback polygon and copied source
\* geometry.
C20_Witness ==
    \E w \in Workers : \E f \in 1..Len(written[w]) :
        /\ Len(sheets[f].placements) >= 2
        /\ \E e \in written[w][f] : e.layer = "PARTS" /\ e.from = "polygon"
        /\ \E e \in written[w][f] : e.layer = "PARTS" /\ e.from = "source"


------------------------------------------------------------------------------
\* Properties of an interrupted worker.

\* Worker w is hit by a KeyboardInterrupt in this step, inside
\* process_nest_task for a job.
Interrupted(w) ==
    /\ pc[w] \in InProcess
    /\ Job(w) # NoJob
    /\ \/ pc[w] = "start" /\ pc'[w] = "stopped"
       \/ ~intr[w] /\ intr'[w]

\* No worker is inside process_nest_task for job j.
Abandoned(j) == \A w \in Workers : ~(pc[w] \in InProcess /\ Job(w) = j)

\* C21: when a worker is interrupted after it claimed a task and before the
\* job is finalized, the job row and the task are in status processing, and
\* they stay as they are in every later state, as long as the job is not
\* deleted.
C21_InterruptedStaysProcessing ==
    [][/\ \A w \in Workers :
             (Interrupted(w) /\ jobs[Job(w)].status \notin Terminal
                 /\ ~Gone(Job(w))') =>
                 /\ jobs'[Job(w)].status = "processing"
                 /\ wq'[task[w]].status = "processing"
       /\ \A j \in Jobs :
             (Abandoned(j) /\ wq[j].status = "processing" /\ ~Gone(j)') =>
                 /\ jobs'[j].status = jobs[j].status
                 /\ wq'[j].status = "processing"]_vars


------------------------------------------------------------------------------
\* Properties of the worked examples.

\* C22: the call with one 9 x 1 strip, quantity 2, on a 10 x 2 sheet with
\* margin 0.5, spacing 0.125 and rotation step 90 returns two sheets with one
\* strip each, the first anchored at (0.5, 0.5), and skips nothing.
C22_StripPerSheet ==
    (npc = "done"
        /\ args = Scenario(Strip, 2, 10 * Inch, 2 * Inch, DefaultSpacing, 90)) =>
        /\ Len(sheets) = 2
        /\ \A k \in 1..Len(sheets) : Len(sheets[k].placements) = 1
        /\ sheets[1].placements[1].x = Inch \div 2
        /\ sheets[1].placements[1].y = Inch \div 2
        /\ skipped = <<>>


\* C23: a call with one part whose bounding box equals the usable sheet
\* dimensions at rotation 0 places its first instance on sheet 1 with anchor
\* (margin, margin), with the default spacing as with spacing 0.
C23_ExactFitPlaced ==
    (npc = "done" /\ Len(args.parts) = 1) =>
        LET part == args.parts[1]
            b == Bounds(part.polygon)
        IN  (/\ part.quantity >= 1
             /\ ~IsEmpty(part.polygon)
             /\ args.spacing \in {0, DefaultSpacing}
             /\ usable_width > 0 /\ usable_height > 0
             /\ b.x2 - b.x1 = usable_width
             /\ b.y2 - b.y1 = usable_height) =>
                /\ sheets # <<>>
                /\ sheets[1].placements[1].part_id = part.id
                /\ sheets[1].placements[1].instance = 1
                /\ sheets[1].placements[1].x = args.margin
                /\ sheets[1].placements[1].y = args.margin


\* The call of the 4 x 4 square, quantity 5, on the 10 x 10 sheet.
FiveSquares == Scenario(Square4, 5, 10 * Inch, 10 * Inch, DefaultSpacing, 90)

\* The distance between the bounding boxes of two placed polygons along x
\* and along y.
BoxGap(p, q) ==
    LET a == Bounds(p)
        b == Bounds(q)
    IN  <<Gap(a.x1, a.x2, b.x1, b.x2), Gap(a.y1, a.y2, b.y1, b.y2)>>

------------------------------------------------------------------------------
\* Properties of the main loop.

\* C25: no error ends a worker process.  A worker stops only in a step of a
\* KeyboardInterrupt (no call fails in that step, and the interrupt hits the
\* loop or is propagating out of process_nest_task); a step in which a call
\* fails leaves every worker running, and a worker that is not interrupted
\* leaves process_nest_task only for the poll of the main loop.
C25_ErrorsKeepLooping ==
    [][\A w \in Workers :
          /\ (pc[w] # "stopped" /\ pc'[w] = "stopped") =>
                 /\ faults' = faults
                 /\ intr[w] \/ intr'[w] \/ pc[w] \in {"poll", "claim", "start"}
          /\ (pc[w] \in {"claim"} \cup InProcess /\ pc'[w] \notin {"claim"} \cup InProcess) =>
                 pc'[w] \in {"poll", "stopped"}
          /\ (pc[w] = "fin" /\ ~intr'[w] /\ pc'[w] # "fin") => pc'[w] = "poll"]_vars

\* A worker is back at the poll after the except block of process_nest_task
\* itself raised: its job row was not marked failed.
C25_Witness ==
    \E w \in Workers :
        /\ pc[w] = "poll" /\ task[w] # NoTask /\ Job(w) # NoJob
        /\ faults = MaxFaults
        /\ wq[task[w]].status = "processing"
        /\ jobs[Job(w)].status = "processing"
        /\ ~intr[w]


------------------------------------------------------------------------------
\* The anchor _try_place chooses.

\* The rows of the grid on which a part of height ph stands inside the
\* usable area (the condition of line 249).
GridRows(n, step) ==
    {r \in 0..((4 * (usable_height + Tol)) \div step) :
        r * step + 4 * n.ph <= 4 * (usable_height + Tol)}

\* What one rotation offers: the left-most free x of the lowest row of the
\* grid that has a free x, found by scanning every row.
RotationCandidate(inst, rot, step, placed_polys) ==
    LET n == Normalized(inst, rot)
        row(r) == FirstFreeX(n, GridPos(r, step), step, placed_polys)
        free == {r \in GridRows(n, step) : row(r) >= 0}
    IN  IF n.pw > usable_width \/ n.ph > usable_height \/ free = {}
        THEN [found |-> FALSE, y |-> 0, x |-> 0, rotation |-> rot]
        ELSE [found |-> TRUE, y |-> GridPos(Least(free), step),
              x |-> row(Least(free)), rotation |-> rot]

\* The candidates of all rotations, and the least of them by (y, x, rotation).
Candidates(inst, placed_polys) ==
    {c \in {RotationCandidate(inst, rotations[k], GridStep(inst.buffered), placed_polys) :
               k \in 1..Len(rotations)} : c.found}
Before(c, d) ==
    \/ c.y < d.y
    \/ c.y = d.y /\ c.x < d.x
    \/ c.y = d.y /\ c.x = d.x /\ c.rotation <= d.rotation
LeastCandidate(S) == CHOOSE c \in S : \A d \in S : Before(c, d)

\* The placement appended by a pass of the placement loop stands at anchor c.
PlacedAt(p, c) ==
    /\ p.x = c.x + args.margin
    /\ p.y = c.y + args.margin
    /\ p.rotation = c.rotation

\* C26: whenever _try_place places an instance on the current sheet, the
\* anchor is the least (y, x) among the candidates of the rotations, the
\* smaller angle winning a tie; it fails only when no rotation has a
\* candidate, and the instance then gets the least anchor of an empty sheet.
C26_AnchorIsLexMin ==
    [][(npc = "place" /\ placeable # <<>>) =>
          \E inst \in {Head(placeable)} :
          \E S \in {Candidates(inst, sheet_polygons[Len(sheets)])} :
             IF S # {}
             THEN /\ Len(sheets') = Len(sheets)
                  /\ LET ps == sheets'[Len(sheets)].placements
                     IN  /\ Len(ps) = Len(sheets[Len(sheets)].placements) + 1
                         /\ PlacedAt(ps[Len(ps)], LeastCandidate(S))
             ELSE /\ Len(sheets') = Len(sheets) + 1
                  /\ \E E \in {Candidates(inst, <<>>)} :
                        LET ps == sheets'[Len(sheets')].placements
                        IN  IF E = {} THEN ps = <<>>
                            ELSE Len(ps) = 1 /\ PlacedAt(ps[1], LeastCandidate(E))]_vars

\* A sheet on which a later instance stands rotated by a quarter turn: the
\* candidate of rotation 0 was higher, or as high and further right.
C26_Witness ==
    /\ npc = "done"
    /\ \E s \in 1..Len(sheets) : \E i \in 2..Len(sheets[s].placements) :
          /\ sheets[s].placements[i].rotation = 90
          /\ sheets[s].placements[i].y > args.margin


------------------------------------------------------------------------------
\* The order in which nest_parts handles the instances.

\* The position of an instance in the sorted list.
Position(part_id, instance) ==
    CHOOSE k \in 1..Len(instances) :
        instances[k].id = part_id /\ instances[k].instance = instance

\* The placements of all sheets, sheet after sheet.
RECURSIVE PlacementsUpTo(_)
PlacementsUpTo(s) ==
    IF s = 0 THEN <<>> ELSE PlacementsUpTo(s - 1) \o sheets[s].placements

\* Largest original first, instances of equal area in the order of the input
\* (parts in list order, the instances of a part by number).
SortedStable ==
    \A i, j \in 1..Len(instances) :
        i < j =>
            /\ Area(instances[i].original) >= Area(instances[j].original)
            /\ Area(instances[i].original) = Area(instances[j].original) =>
                  \/ instances[i].id < instances[j].id
                  \/ /\ instances[i].id = instances[j].id
                     /\ instances[i].instance < instances[j].instance

\* Read sheet after sheet, the placements follow the sorted list.
PlacedInOrder ==
    \E all \in {PlacementsUpTo(Len(sheets))} :
        \A i, j \in 1..Len(all) :
            i < j => Position(all[i].part_id, all[i].instance)
                        < Position(all[j].part_id, all[j].instance)

\* C27: the instances are handled largest original first, equal areas in
\* input order; the placements of a sheet, and the sheets the placed instances
\* are on, follow that order, and a pass of the placement loop touches the
\* most recently opened sheet or a new one, never an earlier sheet.
C27_ProcessingOrder ==
    [][/\ SortedStable'
       /\ PlacedInOrder'
       /\ (npc = "place" /\ placeable # <<>>) =>
             /\ Len(sheets') \in {Len(sheets), Len(sheets) + 1}
             /\ \A s \in 1..(Len(sheets) - 1) : sheets'[s] = sheets[s]
             /\ Len(sheets') > Len(sheets) => sheets'[Len(sheets)] = sheets[Len(sheets)]]_vars

\* The second part of the list is the larger one and was handled first, the
\* two instances of a part kept their order, and the result has two sheets.
C27_Witness ==
    /\ npc = "done"
    /\ Len(sheets) >= 2
    /\ PlacementsUpTo(Len(sheets))[1].part_id = 2
    /\ \E i, j \in 1..Len(instances) :
          /\ i < j
          /\ instances[i].id > instances[j].id
          /\ Area(instances[i].original) > Area(instances[j].original)
    /\ \E i \in 1..(Len(instances) - 1) :
          /\ instances[i].id = instances[i + 1].id
          /\ instances[i].instance = 1
          /\ instances[i + 1].instance = 2

------------------------------------------------------------------------------
\* The two worker loops on one queue.

\* C28: the FreeCAD worker never holds a claimed NEST_PARTS task, and no nest
\* job is pending while its task is completed or failed.
C28_OnlyNestWorkersClaim ==
    /\ pc[FreeCad] # "process"
    /\ \A j \in Jobs : jobs[j].status = "pending" => wq[j].status \notin Terminal


------------------------------------------------------------------------------
\* Instances that pass the pre-filter.

\* The number of placements on all sheets.
PlacedCount == Len(PlacementsUpTo(Len(sheets)))

\* result.skipped has an entry of line 178.
CouldNotFit ==
    \E i \in 1..Len(skipped) : skipped[i].reason = "Could not fit on any sheet"

\* C29: every instance that reaches the placement loop is placed by its pass
\* of the loop; a sheet opened for it takes it at (margin, margin), "Could not
\* fit on any sheet" is never recorded, and when the loop ends a sheet is
\* empty only if it is the first one and no instance was placeable.
C29_PlaceableIsPlaced ==
    [][/\ ~CouldNotFit'
       /\ (npc = "place" /\ placeable # <<>>) =>
             /\ PlacedCount' = PlacedCount + 1
             /\ Len(sheets') > Len(sheets) =>
                   LET ps == sheets'[Len(sheets')].placements
                   IN  /\ Len(ps) = 1
                       /\ ps[1].part_id = Head(placeable).id
                       /\ ps[1].instance = Head(placeable).instance
                       /\ ps[1].x = args.margin
                       /\ ps[1].y = args.margin
       /\ (npc' = "place" /\ placeable' = <<>>) =>
             \A s \in 1..Len(sheets') :
                 sheets'[s].placements = <<>> =>
                     /\ s = 1
                     /\ Len(sheets') = 1
                     /\ Len(skipped') = Len(instances')]_vars

\* The current sheet had no room for an instance: it stands alone at
\* (margin, margin) on a second sheet, and nothing was skipped.
C29_Witness ==
    /\ npc = "done"
    /\ Len(sheets) >= 2
    /\ skipped = <<>>
    /\ sheets[2].placements[1].x = args.margin
    /\ sheets[2].placements[1].y = args.margin
    /\ PlacedCount = Len(instances)


------------------------------------------------------------------------------
\* A job deleted while a worker processes it.

\* C30: once the rows of a job are deleted, no later step creates a row of
\* nest_results, nest_job_items or nest_jobs for it, and no later step puts a
\* sheet DXF or a manifest under its output prefix (nothing removes such a
\* blob afterwards: a second delete answers 404).
C30_NoOrphanAfterDelete ==
    [][\A j \in Jobs :
          Gone(j) =>
              /\ Gone(j)'
              /\ results'[j] = <<>>
              /\ itemMeta'[j] = {}
              /\ {b \in blobs' : b.job = j} \subseteq {b \in blobs : b.job = j}]_vars

====
